---- MODULE Spec2Model ----
(***************************************************************************)
(* Model of colpali_engine/evaluation/retrieval_evaluator.py:              *)
(* CustomRetrievalEvaluator.  One behaviour is one call of one public      *)
(* method (get_single_vector_scores, get_multi_vector_scores, evaluate,    *)
(* compute_metrics) on inputs drawn from bounded sets.  Tensors are        *)
(* sequences: a vector is a sequence of integers, a multi-vector embedding *)
(* a sequence of vectors, a matrix a sequence of rows.                     *)
(***************************************************************************)
EXTENDS Integers, Sequences, FiniteSets, Bags, TLC

VARIABLES call, is_multi_vector, qs, ps, batch_size, pc, i, j, qs_batch,
          scores_batch, scores_list, scores, scorer, error, accuracy, result,
          outer_runs, inner_runs, scored,
          metrics_in, metric_scores

vars == <<call, is_multi_vector, qs, ps, batch_size, pc, i, j, qs_batch,
          scores_batch, scores_list, scores, scorer, error, accuracy, result,
          outer_runs, inner_runs, scored, metrics_in, metric_scores>>

\* ------------------------------------------------------------------ bounds
\* Most token vectors the two lists of multi-vector embeddings of one call
\* hold together.
MaxTokens == 5
\* Most vectors in one list of single-vector embeddings.
MaxVecs == 2
\* Largest batch_size a direct call of get_multi_vector_scores is given.
MaxBatch == 3
\* Most entries of the naucs dictionary.
MaxEntries == 2

\* batch_size=128, the default evaluate relies on.
DefaultBatchSize == 128

\* Token vectors of the multi-vector embeddings (one common dimension).
TokenVectors == {<<1, 0>>, <<-1, 1>>}
\* Vectors of the single-vector embeddings (integer-valued, of a dtype wider
\* than float32); <<4097, 0>> scores 4097 * 4097 = 2^24 + 8193 with itself,
\* which float32 does not hold.
SingleVectors == TokenVectors \cup {<<0, -1>>, <<4097, 0>>}

\* No value: a local not assigned yet, or nothing returned.  Every tensor and
\* dictionary the methods build from valid input is non-empty.
None == <<>>
NoError == "none"
NoQueries == "ValueError: No querie(s) provided"
NoPassages == "ValueError: No passage(s) provided"

\* ------------------------------------------------------------ tensor helpers
Min(a, b) == IF a <= b THEN a ELSE b

MaxOf(S) == CHOOSE x \in S : \A y \in S : y <= x

RECURSIVE SumSeq(_)
SumSeq(s) == IF s = <<>> THEN 0 ELSE Head(s) + SumSeq(Tail(s))

RECURSIVE Flatten(_)
Flatten(ss) == IF ss = <<>> THEN <<>> ELSE Head(ss) \o Flatten(Tail(ss))

\* The contraction over d of the einsum subscripts: sum_d u[d] * v[d].
Dot(u, v) == SumSeq([d \in 1..Len(u) |-> u[d] * v[d]])

\* Slice with the end one too far: consecutive batches share an element.
SliceOverlapping(l, start, size) == SubSeq(l, start + 1, Min(start + size + 1, Len(l)))

\* Python's l[start : start + size] (start counted from 0).
Slice(l, start, size) == SubSeq(l, start + 1, Min(start + size, Len(l)))

\* Python's list(range(0, n, step)).
RECURSIVE RangeFrom(_, _, _)
RangeFrom(k, n, step) ==
    IF k >= n THEN <<>> ELSE <<k>> \o RangeFrom(k + step, n, step)

\* pad_sequence padding with ones instead of the value asked for.
PadSequenceOnes(seqs, v) ==
    LET maxlen == MaxOf({Len(seqs[b]) : b \in 1..Len(seqs)})
        dim == Len(seqs[1][1])
        pad == [d \in 1..dim |-> 1]
    IN  [b \in 1..Len(seqs) |->
            [n \in 1..maxlen |-> IF n <= Len(seqs[b]) THEN seqs[b][n] ELSE pad]]

\* torch.nn.utils.rnn.pad_sequence(seqs, batch_first=True, padding_value=v):
\* every sequence is extended with vectors of v up to the longest one.
PadSequence(seqs, v) ==
    LET maxlen == MaxOf({Len(seqs[b]) : b \in 1..Len(seqs)})
        dim == Len(seqs[1][1])
        pad == [d \in 1..dim |-> v]
    IN  [b \in 1..Len(seqs) |->
            [n \in 1..maxlen |-> IF n <= Len(seqs[b]) THEN seqs[b][n] ELSE pad]]

\* torch.einsum("bnd,csd->bcns", Q, P)
EinsumBndCsd(Q, P) ==
    [b \in 1..Len(Q) |-> [c \in 1..Len(P) |->
        [n \in 1..Len(Q[b]) |-> [s \in 1..Len(P[c]) |-> Dot(Q[b][n], P[c][s])]]]]

\* .max(dim=3)[0] of a tensor indexed [b][c][n][s]
MaxDim3(T) ==
    [b \in 1..Len(T) |-> [c \in 1..Len(T[b]) |->
        [n \in 1..Len(T[b][c]) |->
            MaxOf({T[b][c][n][s] : s \in 1..Len(T[b][c][n])})]]]

\* .sum(dim=2) of a tensor indexed [b][c][n]
SumDim2(T) ==
    [b \in 1..Len(T) |-> [c \in 1..Len(T[b]) |-> SumSeq(T[b][c])]]

\* The blocks joined along dim=0 where dim=1 is meant.
CatDim1AlongRows(blocks) == Flatten(blocks)

\* torch.cat(blocks, dim=1): the blocks side by side, row by row.
CatDim1(blocks) ==
    [b \in 1..Len(blocks[1]) |->
        Flatten([k \in 1..Len(blocks) |-> blocks[k][b]])]

\* torch.cat(blocks, dim=0): the rows of the blocks one after another.
CatDim0(blocks) == Flatten(blocks)

\* torch.stack(vs): the vectors as the rows of a matrix.
Stack(vs) == [b \in 1..Len(vs) |-> vs[b]]

\* The einsum with its output subscripts swapped ("bd,cd->cb").
EinsumBdCdTransposed(Q, P) ==
    [c \in 1..Len(P) |-> [b \in 1..Len(Q) |-> Dot(Q[b], P[c])]]

\* torch.einsum("bd,cd->bc", Q, P)
EinsumBdCd(Q, P) ==
    [b \in 1..Len(Q) |-> [c \in 1..Len(P) |-> Dot(Q[b], P[c])]]

\* The empty-input checks with the passages looked at first.
ValidatePassagesFirst(q, p) ==
    IF Len(p) = 0 THEN NoPassages
    ELSE IF Len(q) = 0 THEN NoQueries
    ELSE NoError

\* The empty-input checks both scorers open with, queries first.
Validate(q, p) ==
    IF Len(q) = 0 THEN NoQueries
    ELSE IF Len(p) = 0 THEN NoPassages
    ELSE NoError

\* The score block of one inner iteration.
ScoreBlock(qb, pb) == SumDim2(MaxDim3(EinsumBndCsd(qb, pb)))

\* get_single_vector_scores on valid input.
SingleVectorScores(q, p) == EinsumBdCd(Stack(q), Stack(p))

\* get_multi_vector_scores on valid input, as one function of its arguments.
MultiVectorScores(q, p, bs) ==
    LET starts_q == RangeFrom(0, Len(q), bs)
        starts_p == RangeFrom(0, Len(p), bs)
        row(a) ==
            LET qb == PadSequence(Slice(q, starts_q[a], bs), 0)
            IN  CatDim1([c \in 1..Len(starts_p) |->
                    ScoreBlock(qb, PadSequence(Slice(p, starts_p[c], bs), 0))])
    IN  CatDim0([a \in 1..Len(starts_q) |-> row(a)])

\* scores.argmax(dim=1): per row, the index of the first maximal value.
ArgMaxDim1(M) ==
    [r \in 1..Len(M) |->
        CHOOSE c \in 1..Len(M[r]) :
            /\ \A c2 \in 1..Len(M[r]) : M[r][c2] <= M[r][c]
            /\ \A c2 \in 1..(c - 1) : M[r][c2] < M[r][c]]

\* (arg_score == torch.arange(rows)).sum().item() / rows, kept as the pair
\* <<numerator, denominator>>; the division raises when the denominator is 0.
Accuracy(M) ==
    LET arg == ArgMaxDim1(M)
    IN  <<Cardinality({r \in 1..Len(M) : arg[r] = r}), Len(M)>>

\* Rounding of an integer-valued score to float32 (24 significant bits,
\* ties to even).
RECURSIVE Ulp(_)
Ulp(a) == IF a < 16777216 THEN 1 ELSE 2 * Ulp(a \div 2)

RoundMagnitude(a) ==
    LET u == Ulp(a)
        q == a \div u
        r == a % u
    IN  IF 2 * r < u THEN q * u
        ELSE IF 2 * r > u THEN (q + 1) * u
        ELSE IF q % 2 = 0 THEN q * u ELSE (q + 1) * u

\* The conversion left out: the scores keep the dtype the scorer gave them.
ToFloat32Skipped(x) == x

ToFloat32(x) == IF x >= 0 THEN RoundMagnitude(x) ELSE 0 - RoundMagnitude(0 - x)

\* scores.to(torch.float32).cpu().numpy()
ToNumpyFloat32(M) ==
    [r \in 1..Len(M) |-> [c \in 1..Len(M[r]) |-> ToFloat32(M[r][c])]]

\* The scorer evaluate picks from the flag set at construction.
SelectScorer(flag) == IF flag THEN "multi" ELSE "single"

\* ---------------------------------------------------------- metric renaming
\* Keys are sequences of text pieces; "@" is a piece of its own.
\* Python's k.split(sep): the pieces between the separators.
RECURSIVE Split(_, _)
Split(k, sep) ==
    IF \A n \in 1..Len(k) : k[n] # sep THEN <<k>>
    ELSE LET at == CHOOSE n \in 1..Len(k) :
                      k[n] = sep /\ \A m \in 1..(n - 1) : k[m] # sep
         IN  <<SubSeq(k, 1, at - 1)>> \o Split(SubSeq(k, at + 1, Len(k)), sep)

\* f"{family}_at_{k.split('@')[1]}"
RenameKey(family, k) == <<family, "_at_">> \o Split(k, "@")[2]

\* A dict is the sequence of its <<key, value>> items in insertion order.
\* d[k] = v: a new key is appended, a present key keeps its place.
DictSet(d, k, v) ==
    IF \E n \in 1..Len(d) : d[n][1] = k
    THEN [n \in 1..Len(d) |-> IF d[n][1] = k THEN <<k, v>> ELSE d[n]]
    ELSE Append(d, <<k, v>>)

\* {**d, **{f"{family}_at_...": v for (k, v) in items}}
RECURSIVE UpdateRenamed(_, _, _)
UpdateRenamed(d, family, items) ==
    IF items = <<>> THEN d
    ELSE UpdateRenamed(DictSet(d, RenameKey(family, Head(items)[1]), Head(items)[2]),
                       family, Tail(items))

\* The families in the order the scores dictionary is built.
Families == <<"ndcg", "map", "recall", "precision", "mrr", "naucs">>

RECURSIVE RenameAll(_, _, _)
RenameAll(d, m, f) ==
    IF f > Len(Families) THEN d
    ELSE RenameAll(UpdateRenamed(d, Families[f], m[Families[f]]), m, f + 1)

\* compute_metrics, given the six dictionaries the evaluator returned.
ComputeMetricsScores(m) == RenameAll(<<>>, m, 1)

\* ------------------------------------------------------------------ inputs
RECURSIVE ListsWithin(_)
\* The lists of non-empty token sequences holding at most t token vectors.
ListsWithin(t) ==
    {<<>>} \cup
    UNION {{<<s>> \o l : l \in ListsWithin(t - m), s \in [1..m -> TokenVectors]}
           : m \in 1..t}

\* The number of token vectors of a list of multi-vector embeddings.
TotalTokens(l) == SumSeq([n \in 1..Len(l) |-> Len(l[n])])

SingleLists == UNION {[1..n -> SingleVectors] : n \in 0..MaxVecs}
BatchSizes == 1..MaxBatch

\* Metric names and cut-offs of the evaluator's dictionaries.
MetricName == [ndcg |-> "NDCG", map |-> "MAP", recall |-> "Recall",
               precision |-> "P", mrr |-> "MRR"]
Ks == {"1", "3"}
KValues == {kv \in UNION {[1..n -> Ks] : n \in 1..2} :
               \A a, b \in 1..Len(kv) : a # b => kv[a] # kv[b]}
NaucKeys == {<<n, "@", k>> : n \in {"nAUC_NDCG", "nAUC_MAP"}, k \in {"1_max", "3_max"}}
NaucVals == {1, 2}
NaucDicts == {d \in UNION {[1..n -> NaucKeys \X NaucVals] : n \in 0..MaxEntries} :
                 \A a, b \in 1..Len(d) : a # b => d[a][1] # d[b][1]}

FamilyIndex(f) == CHOOSE n \in 1..Len(Families) : Families[n] = f

\* One metric family's dictionary: NAME@k for each k of k_values, in order.
FamilyDict(f, kv) ==
    [n \in 1..Len(kv) |-> <<<<MetricName[f], "@", kv[n]>>, 10 * FamilyIndex(f) + n>>]

MetricInputs ==
    {[ndcg |-> FamilyDict("ndcg", kv), map |-> FamilyDict("map", kv),
      recall |-> FamilyDict("recall", kv), precision |-> FamilyDict("precision", kv),
      mrr |-> FamilyDict("mrr", kv), naucs |-> nd] : kv \in KValues, nd \in NaucDicts}

NoMetrics == [f \in {Families[n] : n \in 1..Len(Families)} |-> <<>>]

\* ------------------------------------------------------------ state machine
Idle ==
    /\ pc = "start"
    /\ i = 0 /\ j = 0
    /\ qs_batch = None /\ scores_batch = <<>> /\ scores_list = <<>>
    /\ scores = None /\ scorer = "none" /\ error = NoError
    /\ accuracy = None /\ result = None
    /\ outer_runs = 0 /\ inner_runs = <<>> /\ scored = EmptyBag
    /\ metric_scores = None

InitSingle ==
    /\ call = "get_single_vector_scores"
    /\ is_multi_vector = FALSE
    /\ qs \in SingleLists /\ ps \in SingleLists
    /\ batch_size = DefaultBatchSize
    /\ metrics_in = NoMetrics

InitMulti ==
    /\ call = "get_multi_vector_scores"
    /\ is_multi_vector = FALSE
    /\ qs \in ListsWithin(MaxTokens)
    /\ ps \in ListsWithin(MaxTokens - TotalTokens(qs))
    /\ batch_size \in BatchSizes
    /\ metrics_in = NoMetrics

InitEvaluate ==
    /\ call = "evaluate"
    /\ is_multi_vector \in BOOLEAN
    /\ IF is_multi_vector
       THEN /\ qs \in ListsWithin(MaxTokens)
            /\ ps \in ListsWithin(MaxTokens - TotalTokens(qs))
       ELSE qs \in SingleLists /\ ps \in SingleLists
    /\ batch_size = DefaultBatchSize
    /\ metrics_in = NoMetrics

InitMetrics ==
    /\ call = "compute_metrics"
    /\ is_multi_vector = FALSE
    /\ qs = <<>> /\ ps = <<>>
    /\ batch_size = DefaultBatchSize
    /\ metrics_in \in MetricInputs

Init == Idle /\ (InitSingle \/ InitMulti \/ InitEvaluate \/ InitMetrics)

loopvars == <<i, j, qs_batch, scores_batch, scores_list, outer_runs, inner_runs, scored>>
inputs == <<call, is_multi_vector, qs, ps, batch_size, metrics_in>>

\* Where a scorer's return value or exception goes: back into evaluate, or out.
AfterScorer(err) ==
    IF err # NoError THEN "raised"
    ELSE IF call = "evaluate" THEN "evaluate_assert" ELSE "done"

\* evaluate, lines 33-36: the scorer is picked by the flag.
EvaluateCall ==
    /\ pc = "start" /\ call = "evaluate"
    /\ scorer' = SelectScorer(is_multi_vector)
    /\ pc' = "scorer"
    /\ UNCHANGED <<inputs, loopvars, scores, error, accuracy, result, metric_scores>>

\* get_single_vector_scores, the whole method.
GetSingleVectorScores ==
    /\ \/ pc = "start" /\ call = "get_single_vector_scores"
       \/ pc = "scorer" /\ scorer = "single"
    /\ scorer' = "single"
    /\ error' = Validate(qs, ps)
    /\ scores' = IF error' = NoError THEN SingleVectorScores(qs, ps) ELSE None
    /\ pc' = AfterScorer(error')
    /\ UNCHANGED <<inputs, loopvars, accuracy, result, metric_scores>>

\* get_multi_vector_scores, lines 104-109: the checks, then the empty list.
MultiEnter ==
    /\ \/ pc = "start" /\ call = "get_multi_vector_scores"
       \/ pc = "scorer" /\ scorer = "multi"
    /\ scorer' = "multi"
    /\ error' = Validate(qs, ps)
    /\ scores_list' = <<>>
    /\ i' = 0
    /\ pc' = IF error' = NoError THEN "outer" ELSE "raised"
    /\ UNCHANGED <<inputs, j, qs_batch, scores_batch, scores, accuracy, result,
                   outer_runs, inner_runs, scored, metric_scores>>

\* Lines 111-115: one more outer iteration begins.
OuterBegin ==
    /\ pc = "outer" /\ i < Len(qs)
    /\ scores_batch' = <<>>
    /\ qs_batch' = PadSequence(Slice(qs, i, batch_size), 0)
    /\ j' = 0
    /\ outer_runs' = outer_runs + 1
    /\ inner_runs' = Append(inner_runs, 0)
    /\ pc' = "inner"
    /\ UNCHANGED <<inputs, i, scores_list, scores, scorer, error, accuracy, result,
                   scored, metric_scores>>

\* Lines 116-120: one inner iteration.
InnerStep ==
    /\ pc = "inner" /\ j < Len(ps)
    /\ LET ps_batch == PadSequence(Slice(ps, j, batch_size), 0)
       IN  /\ scores_batch' = Append(scores_batch, ScoreBlock(qs_batch, ps_batch))
           /\ scored' = scored (+) SetToBag(
                  ((i + 1)..(i + Len(qs_batch))) \X ((j + 1)..(j + Len(ps_batch))))
    /\ inner_runs' = [inner_runs EXCEPT ![Len(inner_runs)] = @ + 1]
    /\ j' = j + batch_size
    /\ UNCHANGED <<inputs, pc, i, qs_batch, scores_list, scores, scorer, error,
                   accuracy, result, outer_runs, metric_scores>>

\* Lines 121-122: the inner loop is over; the row of blocks is joined.
OuterEnd ==
    /\ pc = "inner" /\ j >= Len(ps)
    /\ scores_list' = Append(scores_list, CatDim1(scores_batch))
    /\ scores_batch' = CatDim1(scores_batch)
    /\ i' = i + batch_size
    /\ pc' = "outer"
    /\ UNCHANGED <<inputs, j, qs_batch, scores, scorer, error, accuracy, result,
                   outer_runs, inner_runs, scored, metric_scores>>

\* Lines 124-125: the outer loop is over; the rows are joined and returned.
MultiReturn ==
    /\ pc = "outer" /\ i >= Len(qs)
    /\ scores' = CatDim0(scores_list)
    /\ pc' = AfterScorer(NoError)
    /\ UNCHANGED <<inputs, loopvars, scorer, error, accuracy, result, metric_scores>>

\* evaluate, lines 38-46: the assertion, the top-1 accuracy, the conversion.
EvaluateFinish ==
    /\ pc = "evaluate_assert"
    /\ IF Len(scores) # Len(qs)
       THEN /\ error' = "AssertionError"
            /\ pc' = "raised"
            /\ UNCHANGED <<accuracy, result>>
       ELSE /\ accuracy' = Accuracy(scores)
            /\ IF accuracy'[2] = 0
               THEN /\ error' = "ZeroDivisionError"
                    /\ pc' = "raised"
                    /\ result' = result
               ELSE /\ result' = ToNumpyFloat32(scores)
                    /\ pc' = "done"
                    /\ error' = error
    /\ UNCHANGED <<inputs, loopvars, scores, scorer, metric_scores>>

\* compute_metrics, lines 57-74, on the dictionaries the evaluator returned.
ComputeMetrics ==
    /\ pc = "start" /\ call = "compute_metrics"
    /\ metric_scores' = ComputeMetricsScores(metrics_in)
    /\ pc' = "done"
    /\ UNCHANGED <<inputs, loopvars, scores, scorer, error, accuracy, result>>

Next ==
    \/ EvaluateCall
    \/ GetSingleVectorScores
    \/ MultiEnter
    \/ OuterBegin
    \/ InnerStep
    \/ OuterEnd
    \/ MultiReturn
    \/ EvaluateFinish
    \/ ComputeMetrics

Spec == Init /\ [][Next]_vars

\* ------------------------------------------------------------------ claims
Ceil(a, b) == (a + b - 1) \div b

\* A scorer has returned its matrix (to its caller or to evaluate).
ScorerReturned == scores # None

MultiReturned == ScorerReturned /\ scorer = "multi"
SingleReturned == ScorerReturned /\ scorer = "single"

\* MaxSim of one query against one passage's own token vectors.
MaxSim(q, p) ==
    SumSeq([n \in 1..Len(q) |-> MaxOf({Dot(q[n], p[s]) : s \in 1..Len(p)})])

\* Start (from 0) of the batch that holds the element at position n (from 1).
BatchStart(n, bs) == ((n - 1) \div bs) * bs

\* C1: get_multi_vector_scores returns, at (i, j), the sum over the token
\* vectors q of qs[i] of the greatest q.p over the token vectors p of ps[j].
C1_MaxSimOverOwnTokens ==
    MultiReturned =>
        \A a \in 1..Len(qs), b \in 1..Len(ps) :
            scores[a][b] = MaxSim(qs[a], ps[b])

\* C2: a score matrix a scorer returns has len(qs) rows of len(ps) columns,
\* whatever the batch size.
C2_ScoreMatrixShape ==
    ScorerReturned =>
        /\ Len(scores) = Len(qs)
        /\ \A r \in 1..Len(scores) : Len(scores[r]) = Len(ps)

C2_Witness ==
    /\ call = "get_multi_vector_scores" /\ pc = "done"
    /\ Len(qs) = 3 /\ Len(ps) = 2 /\ batch_size = 2
    /\ Len(scores) = 3 /\ Len(scores[3]) = 2

\* C3: the matrix get_multi_vector_scores returns is the one it returns for
\* every other batch size.
C3_BatchSizeIndependent ==
    MultiReturned =>
        \A bs \in BatchSizes : scores = MultiVectorScores(qs, ps, bs)

\* C4: get_single_vector_scores returns, at (i, j), the dot product of qs[i]
\* and ps[j].
C4_SingleVectorDotProduct ==
    SingleReturned =>
        /\ Len(scores) = Len(qs)
        /\ \A a \in 1..Len(qs) :
            /\ Len(scores[a]) = Len(ps)
            /\ \A b \in 1..Len(ps) :
                scores[a][b] = qs[a][1] * ps[b][1] + qs[a][2] * ps[b][2]

C4_Witness ==
    /\ call = "get_single_vector_scores" /\ pc = "done"
    /\ qs = <<(<<1, 0>>), (<<-1, 1>>)>> /\ ps = <<(<<0, -1>>), (<<-1, 1>>)>>
    /\ scores = <<(<<0, -1>>), (<<-1, 2>>)>>

\* C5: with qs empty the scorers and evaluate raise the ValueError about
\* queries (also when ps is empty too), with only ps empty the one about
\* passages; nothing is scored and no matrix is returned.
C5_EmptyInputRaises ==
    call \in {"get_single_vector_scores", "get_multi_vector_scores", "evaluate"} =>
        /\ (Len(qs) = 0 \/ Len(ps) = 0) =>
              /\ pc \in {"start", "scorer", "raised"}
              /\ scores = None /\ result = None
              /\ outer_runs = 0 /\ scored = EmptyBag
        /\ pc = "raised" =>
              error = IF Len(qs) = 0 THEN NoQueries ELSE NoPassages
        /\ (pc = "raised") = (error # NoError)
        /\ (Len(qs) > 0 /\ Len(ps) > 0) => pc # "raised"

C5_Witness ==
    /\ call = "evaluate" /\ is_multi_vector /\ pc = "raised"
    /\ qs = <<>> /\ ps = <<>> /\ error = NoQueries

\* The text after the first "@" of a key.
TextAfterAt(k) ==
    LET at == CHOOSE n \in 1..Len(k) : k[n] = "@" /\ \A m \in 1..(n - 1) : k[m] # "@"
    IN  SubSeq(k, at + 1, Len(k))

FamilySet == {Families[n] : n \in 1..Len(Families)}

MetricsReturned == call = "compute_metrics" /\ pc = "done"

\* C6: compute_metrics returns every entry NAME@k -> v of the six
\* dictionaries as <family>_at_<text after the @> -> v, and nothing else.
C6_EveryEntryRenamed ==
    MetricsReturned =>
        /\ \A f \in FamilySet : \A n \in 1..Len(metrics_in[f]) :
              \E m \in 1..Len(metric_scores) :
                  metric_scores[m] =
                      <<(<<f, "_at_">> \o TextAfterAt(metrics_in[f][n][1])),
                        metrics_in[f][n][2]>>
        /\ \A m \in 1..Len(metric_scores) :
              \E f \in FamilySet : \E n \in 1..Len(metrics_in[f]) :
                  metric_scores[m][1] = <<f, "_at_">> \o TextAfterAt(metrics_in[f][n][1])

\* What evaluate does apart from the conversion of its return value: the
\* scorer the flag names runs, the assertion and the division never fail on
\* non-empty input, and the accuracy is the share of rows whose first greatest
\* score is on the diagonal.
EvaluateRunsScorer ==
    /\ scorer # "none" => scorer = (IF is_multi_vector THEN "multi" ELSE "single")
    /\ error \notin {"AssertionError", "ZeroDivisionError"}
    /\ (Len(qs) > 0 /\ Len(ps) > 0) => pc # "raised"
    /\ pc = "done" =>
          /\ scores = IF is_multi_vector
                      THEN MultiVectorScores(qs, ps, DefaultBatchSize)
                      ELSE SingleVectorScores(qs, ps)
          /\ accuracy[2] = Len(qs) /\ accuracy[2] > 0
          /\ accuracy[1] = Cardinality({r \in 1..Len(scores) :
                /\ r <= Len(scores[r])
                /\ \A c \in 1..Len(scores[r]) : scores[r][c] <= scores[r][r]
                /\ \A c \in 1..(r - 1) : scores[r][c] < scores[r][r]})

Abs(x) == IF x >= 0 THEN x ELSE 0 - x

\* An integer float32 holds exactly: 24 significant bits.
RECURSIVE Float32Holds(_)
Float32Holds(x) ==
    \/ Abs(x) <= 16777216
    \/ Abs(x) % 2 = 0 /\ Float32Holds(Abs(x) \div 2)

\* y is an integer float32 holds and none it holds is nearer to x.
NearestFloat32(x, y) ==
    /\ Float32Holds(y)
    /\ \A z \in (x - Abs(x - y))..(x + Abs(x - y)) :
          Float32Holds(z) => Abs(x - z) >= Abs(x - y)

\* C7 (as claimed): evaluate runs the scorer the flag names, returns its
\* matrix with the values unchanged, never fails its assertion nor divides by
\* zero, and its accuracy is the share of rows whose first greatest score is
\* on the diagonal.
C7_EvaluateReturnsScorerMatrix ==
    call = "evaluate" =>
        /\ EvaluateRunsScorer
        /\ pc = "done" => result = scores

\* C7 (amended): as claimed, except that the matrix returned is the scorer's
\* matrix converted to float32: same shape, each value the nearest one float32
\* holds, hence unchanged exactly where float32 holds the score.
C7_EvaluateReturnsScorerMatrixAsFloat32 ==
    call = "evaluate" =>
        /\ EvaluateRunsScorer
        /\ pc = "done" =>
              /\ Len(result) = Len(scores)
              /\ \A r \in 1..Len(scores) :
                    /\ Len(result[r]) = Len(scores[r])
                    /\ \A c \in 1..Len(scores[r]) :
                          /\ NearestFloat32(scores[r][c], result[r][c])
                          /\ Float32Holds(scores[r][c]) => result[r][c] = scores[r][c]

C7_Witness ==
    /\ call = "evaluate" /\ ~is_multi_vector /\ pc = "done"
    /\ qs = <<(<<4097, 0>>), (<<-1, 1>>)>> /\ ps = <<(<<4097, 0>>), (<<-1, 1>>)>>
    /\ scores = <<(<<16785409, -4097>>), (<<-4097, 2>>)>>
    /\ result = <<(<<16785408, -4097>>), (<<-4097, 2>>)>>
    /\ accuracy = <<2, 2>>

\* C8: the dictionary compute_metrics returns has as many entries as the six
\* input dictionaries together.
C8_NoEntryLost ==
    MetricsReturned =>
        Len(metric_scores) = SumSeq([n \in 1..Len(Families) |-> Len(metrics_in[Families[n]])])

\* C9: the outer loop runs ceil(len(qs)/batch_size) times, the inner loop
\* ceil(len(ps)/batch_size) times per outer iteration, each iteration moving
\* its index on by batch_size >= 1 (so both loops end), each pair is scored
\* in exactly one inner iteration, and its score ends at position (i, j).
C9_NestedBatchingCoversPairsOnce ==
    scorer = "multi" =>
        /\ outer_runs <= Ceil(Len(qs), batch_size)
        /\ \A k \in 1..Len(inner_runs) : inner_runs[k] <= Ceil(Len(ps), batch_size)
        /\ \A pr \in BagToSet(scored) : CopiesIn(pr, scored) = 1
        /\ batch_size >= 1
        /\ pc = "outer" => i = outer_runs * batch_size
        /\ pc = "inner" =>
              /\ i = (outer_runs - 1) * batch_size /\ i < Len(qs)
              /\ j = inner_runs[Len(inner_runs)] * batch_size
        /\ ScorerReturned =>
              /\ outer_runs = Ceil(Len(qs), batch_size)
              /\ Len(inner_runs) = outer_runs
              /\ \A k \in 1..Len(inner_runs) :
                    inner_runs[k] = Ceil(Len(ps), batch_size)
              /\ scored = SetToBag((1..Len(qs)) \X (1..Len(ps)))
              /\ \A a \in 1..Len(qs), b \in 1..Len(ps) :
                    LET qa == BatchStart(a, batch_size)
                        pb == BatchStart(b, batch_size)
                    IN  scores[a][b] =
                            ScoreBlock(PadSequence(Slice(qs, qa, batch_size), 0),
                                       PadSequence(Slice(ps, pb, batch_size), 0))
                                [a - qa][b - pb]

C9_Witness ==
    /\ call = "get_multi_vector_scores" /\ pc = "done"
    /\ Len(qs) = 3 /\ Len(ps) = 2 /\ batch_size = 2
    /\ outer_runs = 2 /\ inner_runs = <<1, 1>>

\* C10: the zero vectors a query is padded with add 0 to each of its scores:
\* every padded position's maximum is 0, and the score of (qs[i], ps[j]) is
\* the one qs[i] gets alone, unpadded, against the same batch of passages.
C10_QueryPaddingScoreNeutral ==
    /\ (scorer = "multi" /\ pc = "inner") =>
          \A c \in 1..Len(RangeFrom(0, Len(ps), batch_size)) :
              LET pb == PadSequence(Slice(ps, (c - 1) * batch_size, batch_size), 0)
                  T == MaxDim3(EinsumBndCsd(qs_batch, pb))
              IN  \A b \in 1..Len(qs_batch), d \in 1..Len(pb) :
                      \A n \in (Len(qs[i + b]) + 1)..Len(qs_batch[b]) : T[b][d][n] = 0
    /\ MultiReturned =>
          \A a \in 1..Len(qs), b \in 1..Len(ps) :
              LET pb == BatchStart(b, batch_size)
              IN  scores[a][b] =
                      ScoreBlock(<<qs[a]>>, PadSequence(Slice(ps, pb, batch_size), 0))
                          [1][b - pb]

C10_Witness ==
    /\ call = "get_multi_vector_scores" /\ pc = "done"
    /\ batch_size = 2 /\ Len(qs) = 2 /\ Len(ps) = 1
    /\ Len(qs[1]) = 1 /\ Len(qs[2]) = 2
    /\ qs[1][1] = <<-1, 1>> /\ ps[1][1] = <<1, 0>>
    /\ scores[1][1] = -1

====
